---- MODULE Spec2Model ----
(***************************************************************************)
(* ProgramSimulator (src/src/lib.rs): a facade over a solana-program-test  *)
(* session.  The state is the session the facade owns: the bank's account  *)
(* balances and data, the Clock sysvar, the cached last_blockhash, and     *)
(* whether the test process is still running (a panic ends it).  `op` and  *)
(* `ret` record the last facade call and what it returned, `tx` the        *)
(* transaction build_and_sign_tx produced in that call (NoTx if none).     *)
(***************************************************************************)
EXTENDS Integers, Sequences, FiniteSets, TLC

VARIABLES lamports, data, clock, last_blockhash, overflow_checks, alive,
          nkeys, op, ret, tx

vars == <<lamports, data, clock, last_blockhash, overflow_checks, alive,
          nkeys, op, ret, tx>>

(***************************************************************************)
(* Bounds of the model.                                                    *)
(***************************************************************************)
\* i64::MAX scaled down: timestamps range over I64Min..I64Max.
I64Max == 1
I64Min == -I64Max - 1
\* Slots the session may be warped to.
MaxSlot == 2
\* Blockhashes the bank hands out before the model stops building transactions.
MaxBlockhash == 2
\* The payer's balance at genesis.
MintLamports == 1000017000

(***************************************************************************)
(* Program constants.                                                      *)
(***************************************************************************)
LAMPORTS_PER_SOL == 1000000000
ComputeUnitLimit == 2000000
DiscriminatorLen == 8
\* The runtime's fee for each required signature.
LamportsPerSignature == 5000
\* Slots in an epoch of the session's epoch schedule.
SlotsPerEpoch == 2

None == "None"
Payer == "payer"
\* The keypairs Keypair::new() hands out, in order; each address is unused before.
KeyPool == <<"K1">>
\* A keypair the caller made itself, and a plain address without a keypair.
CallerKeys == {"A"}
Recipients == {"B"}
\* Accounts the ProgramTest put into genesis, with their data.
GenesisData ==
    [a \in {"D1", "D2"} |->
        IF a = "D1" THEN <<7, 7, 7, 7, 7, 7, 7, 7, 1, 5>> ELSE <<1, 5>>]
GenesisLamports == 1000000

PoolKeys == {KeyPool[i] : i \in 1..Len(KeyPool)}
Addr == {Payer} \cup CallerKeys \cup PoolKeys \cup Recipients \cup DOMAIN GenesisData

Amounts == {1000000, LAMPORTS_PER_SOL}
Timestamps == I64Min..I64Max

(***************************************************************************)
(* Results and errors.                                                     *)
(***************************************************************************)
Ok(v) == [ok |-> TRUE, val |-> v]
Err(e) == [ok |-> FALSE, panicked |-> FALSE, err |-> e]
Panic(msg) == [ok |-> FALSE, panicked |-> TRUE, msg |-> msg]

ClientError(msg) == [variant |-> "ClientError", msg |-> msg]
IoError(msg) == [variant |-> "Io", msg |-> msg]
BanksTransactionError(te) == [variant |-> "TransactionError", te |-> te]

InstructionErr(name, code) == [name |-> name, code |-> code]
TxInstructionError(index, ie) == [kind |-> "InstructionError", index |-> index, err |-> ie]
TxError(kind) == [kind |-> kind]

(***************************************************************************)
(* into_transaction_error: anchor Error -> ProgramError -> u64 ->          *)
(* InstructionError.  A u64 is kept as its high and low 32-bit halves.     *)
(***************************************************************************)
U64(hi, lo) == [hi |-> hi, lo |-> lo]

\* Domain errors a program returns: an anchor error code, or a ProgramError.
AnchorError(code) == [src |-> "AnchorError", name |-> "Custom", code |-> code]
AnchorProgramError(name, code) == [src |-> "ProgramError", name |-> name, code |-> code]
DomainErrors ==
    {AnchorError(6000), AnchorError(0), AnchorProgramError("InvalidArgument", 0)}

\* ProgramError::from(anchor_lang::error::Error)
ProgramErrorFromAnchor(e) ==
    IF e.src = "AnchorError"
    THEN [name |-> "Custom", code |-> e.code]
    ELSE [name |-> e.name, code |-> e.code]

\* The builtin ProgramError / InstructionError codes, as the value above bit 32.
BuiltinIndex(name) ==
    CASE name = "InvalidArgument" -> 2
      [] name = "InvalidInstructionData" -> 3
      [] name = "InvalidAccountData" -> 4
      [] OTHER -> 0

\* u64::from(ProgramError): Custom(0) is CUSTOM_ZERO = 1 << 32, Custom(n) is n.
U64FromProgramError(pe) ==
    IF pe.name = "Custom"
    THEN IF pe.code = 0 THEN U64(1, 0) ELSE U64(0, pe.code)
    ELSE U64(BuiltinIndex(pe.name), 0)

\* InstructionError::from(u64)
InstructionErrorFromU64(v) ==
    CASE v = U64(1, 0) -> InstructionErr("Custom", 0)
      [] v = U64(2, 0) -> InstructionErr("InvalidArgument", 0)
      [] v = U64(3, 0) -> InstructionErr("InvalidInstructionData", 0)
      [] v = U64(4, 0) -> InstructionErr("InvalidAccountData", 0)
      [] OTHER -> IF v.hi = 0
                  THEN InstructionErr("Custom", v.lo)
                  ELSE InstructionErr("InvalidError", 0)

into_transaction_error_with_index(instruction_index, error) ==
    TxInstructionError(instruction_index,
        InstructionErrorFromU64(U64FromProgramError(ProgramErrorFromAnchor(error))))

into_transaction_error(error) == into_transaction_error_with_index(0, error)

(***************************************************************************)
(* Instructions and build_and_sign_tx.                                     *)
(***************************************************************************)
NoErr == AnchorError(0)
Ix(kind, from, to, n, units, error) ==
    [kind |-> kind, from |-> from, to |-> to, lamports |-> n, units |-> units,
     error |-> error]
\* compute_budget::ComputeBudgetInstruction::set_compute_unit_limit(units)
SetComputeUnitLimit(units) == Ix("SetComputeUnitLimit", None, None, 0, units, NoErr)
\* system_instruction::transfer(from, to, lamports)
Transfer(from, to, n) == Ix("Transfer", from, to, n, 0, NoErr)
\* An instruction of the program under test that returns the domain error e.
Failing(e) == Ix("Failing", None, None, 0, 0, e)

compute_units_ix == SetComputeUnitLimit(ComputeUnitLimit)

all_instructions_appended(instructions) == instructions \o <<compute_units_ix>>
\* all_instructions: the compute budget instruction, then the caller's.
all_instructions(instructions) == <<compute_units_ix>> \o instructions

\* payer.unwrap_or(&self.program_test_context.payer)
actual_payer(payer) == IF payer = None THEN Payer ELSE payer

\* The accounts whose signature the message requires: the fee payer and every
\* account an instruction marks as a signer (a transfer's source).
RequiredSigners(instructions, fee_payer) ==
    {fee_payer} \cup
    {instructions[i].from :
        i \in {j \in 1..Len(instructions) : instructions[j].kind = "Transfer"}}

SeqRange(s) == {s[i] : i \in 1..Len(s)}

\* get_new_latest_blockhash: a blockhash other than the cached one, or an error
\* when the bank registered none in time.
NewBlockhashOutcomes ==
    {Ok(last_blockhash + 1), Err(IoError("Unable to get new blockhash"))}

\* Transaction::new_with_payer, then partial_sign by the payer and by the signers.
\* partial_sign panics on a keypair the message does not require.
SignedTransaction(all, fee_payer, signers, blockhash) ==
    IF ~blockhash.ok THEN blockhash
    ELSE IF ~(SeqRange(signers) \subseteq RequiredSigners(all, fee_payer))
    THEN Panic("Transaction::partial_sign failed: KeypairPubkeyMismatch")
    ELSE Ok([instructions |-> all,
             payer |-> fee_payer,
             signed |-> {fee_payer} \cup SeqRange(signers),
             recent_blockhash |-> blockhash.val])

build_and_sign_tx_signer_pays(instructions, signers, payer, blockhash) ==
    SignedTransaction(all_instructions(instructions),
                      IF payer = None /\ signers # <<>> THEN signers[1]
                      ELSE actual_payer(payer),
                      signers, blockhash)
build_and_sign_tx(instructions, signers, payer, blockhash) ==
    SignedTransaction(all_instructions(instructions), actual_payer(payer),
                      signers, blockhash)

(***************************************************************************)
(* The bank: what process_transaction and simulate_transaction do with a   *)
(* signed transaction.                                                     *)
(***************************************************************************)
\* One instruction on the balances bal: [ok, bal, err].
ExecuteInstruction(ix, bal) ==
    CASE ix.kind = "SetComputeUnitLimit" ->
            [ok |-> TRUE, bal |-> bal, err |-> InstructionErr("None", 0)]
      [] ix.kind = "Transfer" ->
            IF data[ix.from] # <<>>
            THEN [ok |-> FALSE, bal |-> bal, err |-> InstructionErr("InvalidArgument", 0)]
            ELSE IF bal[ix.from] < ix.lamports
            THEN [ok |-> FALSE, bal |-> bal, err |-> InstructionErr("Custom", 1)]
            ELSE [ok |-> TRUE,
                  bal |-> IF ix.from = ix.to THEN bal
                          ELSE [bal EXCEPT ![ix.from] = @ - ix.lamports,
                                           ![ix.to] = @ + ix.lamports],
                  err |-> InstructionErr("None", 0)]
      [] OTHER ->
            [ok |-> FALSE, bal |-> bal,
             err |-> InstructionErrorFromU64(
                         U64FromProgramError(ProgramErrorFromAnchor(ix.error)))]

\* The instructions from position i on: the balances after all of them, or the
\* wire index (from 0) and the error of the first that fails.
RECURSIVE ExecuteFrom(_, _, _)
ExecuteFrom(instructions, i, bal) ==
    IF i > Len(instructions)
    THEN [ok |-> TRUE, bal |-> bal, index |-> 0, err |-> InstructionErr("None", 0)]
    ELSE LET r == ExecuteInstruction(instructions[i], bal)
         IN  IF r.ok THEN ExecuteFrom(instructions, i + 1, r.bal)
             ELSE [ok |-> FALSE, bal |-> bal, index |-> i - 1, err |-> r.err]

Fee(transaction) ==
    LamportsPerSignature
        * Cardinality(RequiredSigners(transaction.instructions, transaction.payer))

\* Loading and executing a transaction on balances bal: [result, bal].  The fee
\* stays charged when an instruction fails; the instructions' effects do not.
Execute(transaction, bal) ==
    LET fee == Fee(transaction)
        p == transaction.payer
    IN  IF bal[p] = 0 THEN [result |-> Err(TxError("AccountNotFound")), bal |-> bal]
        ELSE IF bal[p] < fee
        THEN [result |-> Err(TxError("InsufficientFundsForFee")), bal |-> bal]
        ELSE LET charged == [bal EXCEPT ![p] = @ - fee]
                 r == ExecuteFrom(transaction.instructions, 1, charged)
             IN  IF r.ok THEN [result |-> Ok("()"), bal |-> r.bal]
                 ELSE [result |-> Err(TxInstructionError(r.index, r.err)),
                       bal |-> charged]

\* banks_client.process_transaction: signatures verified, then executed and committed.
ProcessTransaction(transaction, bal) ==
    IF ~(RequiredSigners(transaction.instructions, transaction.payer)
            \subseteq transaction.signed)
    THEN [result |-> Err(TxError("SignatureFailure")), bal |-> bal]
    ELSE Execute(transaction, bal)

\* banks_client.simulate_transaction: executed on a copy, nothing committed.
SimulateTransaction(transaction, bal) ==
    [result |-> Execute(transaction, bal).result, bal |-> bal]

(***************************************************************************)
(* The Clock sysvar and the operations on it.                              *)
(***************************************************************************)
Clock(slot, epoch_start_timestamp, unix_timestamp) ==
    [slot |-> slot,
     epoch_start_timestamp |-> epoch_start_timestamp,
     epoch |-> slot \div SlotsPerEpoch,
     leader_schedule_epoch |-> (slot \div SlotsPerEpoch) + 1,
     unix_timestamp |-> unix_timestamp]

InI64(x) == I64Min <= x /\ x <= I64Max
\* i64 addition as a build without overflow checks computes it.
WrappingAdd(a, b) == ((a + b - I64Min) % (2 * (I64Max + 1))) + I64Min

\* Whether `+=` overflows in advance_clock_by.
AddOverflows(c, seconds_to_advance) ==
    \/ ~InI64(c.epoch_start_timestamp + seconds_to_advance)
    \/ ~InI64(c.unix_timestamp + seconds_to_advance)

ClockAdvancedByFromDefault(c, seconds_to_advance) ==
    [slot |-> 0,
     epoch_start_timestamp |-> WrappingAdd(c.epoch_start_timestamp, seconds_to_advance),
     epoch |-> 0,
     leader_schedule_epoch |-> 0,
     unix_timestamp |-> WrappingAdd(c.unix_timestamp, seconds_to_advance)]
\* The clock advance_clock_by hands to set_sysvar.
ClockAdvancedBy(c, seconds_to_advance) ==
    [c EXCEPT !.epoch_start_timestamp = WrappingAdd(@, seconds_to_advance),
              !.unix_timestamp = WrappingAdd(@, seconds_to_advance)]

ClockAdvancedToAsOffset(c, seconds_to_advance) ==
    ClockAdvancedBy(c, seconds_to_advance)
\* The clock advance_clock_to hands to set_sysvar.
ClockAdvancedTo(c, seconds_to_advance) ==
    [c EXCEPT !.epoch_start_timestamp = seconds_to_advance,
              !.unix_timestamp = seconds_to_advance]

\* get_first_slot_in_epoch of the session's epoch schedule.
FirstSlotInEpoch(epoch) == epoch * SlotsPerEpoch

\* The clocks of the bank warp_to_slot creates at warp_slot: the timestamp is the
\* parent's, or the runtime's later estimate; a new epoch starts at that timestamp.
ClocksAfterWarp(c, warp_slot) ==
    {Clock(warp_slot,
           IF warp_slot \div SlotsPerEpoch # c.epoch THEN t ELSE c.epoch_start_timestamp,
           t) :
        t \in {u \in {c.unix_timestamp, c.unix_timestamp + 1} : InI64(u)}}

\* ProgramTestContext::warp_to_slot refuses a slot that is not ahead.
WarpResult(c, warp_slot) ==
    IF warp_slot <= c.slot THEN Err([variant |-> "InvalidWarpSlot"]) ELSE Ok("()")

(***************************************************************************)
(* Reads.                                                                  *)
(***************************************************************************)
\* banks_client.get_account is None for an address that holds no lamports.
get_account(pubkey) ==
    IF lamports[pubkey] = 0 THEN Err(ClientError("Account not found"))
    ELSE Ok([lamports |-> lamports[pubkey], data |-> data[pubkey]])

get_balance(pubkey) == Ok(lamports[pubkey])

get_clock == Ok(clock)

\* T is a two-field account type: is_initialized: bool, value: u8.
TypedLen == 2
\* T::deserialize of borsh: reads the fields from the front of the bytes.
Deserialize(bytes) ==
    IF Len(bytes) < TypedLen THEN Err(IoError("Unexpected length of input"))
    ELSE IF bytes[1] \notin {0, 1} THEN Err(IoError("Invalid bool representation"))
    ELSE Ok([is_initialized |-> bytes[1] = 1, value |-> bytes[2]])

\* Pack::unpack: the length is T::LEN exactly and the value is initialized.
Unpack(bytes) ==
    IF Len(bytes) # TypedLen THEN Err("InvalidAccountData")
    ELSE IF ~Deserialize(bytes).ok THEN Err("InvalidAccountData")
    ELSE IF ~Deserialize(bytes).val.is_initialized THEN Err("UninitializedAccount")
    ELSE Deserialize(bytes)

get_anchor_account_data(pubkey) ==
    LET account == get_account(pubkey)
    IN  IF ~account.ok THEN account
        ELSE IF Len(account.val.data) < DiscriminatorLen
        THEN Panic("range start index 8 out of range for slice")
        ELSE Deserialize(SubSeq(account.val.data, DiscriminatorLen + 1,
                                Len(account.val.data)))

get_borsh_account_data(pubkey) ==
    LET account == get_account(pubkey)
    IN  IF ~account.ok THEN account ELSE Deserialize(account.val.data)

get_packed_account_data(pubkey) ==
    LET account == get_account(pubkey)
    IN  IF ~account.ok THEN account
        ELSE IF ~Unpack(account.val.data).ok THEN Err(ClientError("Unpack error"))
        ELSE Unpack(account.val.data)

(***************************************************************************)
(* The facade's operations as functions of the session state: what each    *)
(* returns and the state it leaves.                                        *)
(***************************************************************************)
NoTx == [instructions |-> <<>>, payer |-> None, signed |-> {}, recent_blockhash |-> 0]
Signature(transaction) ==
    [signer |-> transaction.payer, recent_blockhash |-> transaction.recent_blockhash]

Outcome(r, bal, blockhash, running, transaction) ==
    [ret |-> r, lamports |-> bal, last_blockhash |-> blockhash, alive |-> running,
     tx |-> transaction]

\* The outcome when build_and_sign_tx returned no transaction: its error, with
\* nothing changed, or its panic, after the blockhash was cached.
NotBuilt(built, blockhash) ==
    IF built.panicked
    THEN Outcome(built, lamports, blockhash.val, FALSE, NoTx)
    ELSE Outcome(built, lamports, last_blockhash, TRUE, NoTx)

process_ixs_with_default_compute_limit(instructions, signers, payer, blockhash) ==
    LET built == build_and_sign_tx(instructions, signers, payer, blockhash)
    IN  IF ~built.ok THEN NotBuilt(built, blockhash)
        ELSE LET r == ProcessTransaction(built.val, lamports)
             IN  Outcome(IF r.result.ok THEN Ok(Signature(built.val))
                         ELSE Err(BanksTransactionError(r.result.err)),
                         r.bal, blockhash.val, TRUE, built.val)

process_ix_with_default_compute_limit(instruction, signers, payer, blockhash) ==
    process_ixs_with_default_compute_limit(<<instruction>>, signers, payer, blockhash)

simulate_ixs_by_processing(instructions, signers, payer, blockhash) ==
    process_ixs_with_default_compute_limit(instructions, signers, payer, blockhash)
simulate_ixs_with_default_compute_limit(instructions, signers, payer, blockhash) ==
    LET built == build_and_sign_tx(instructions, signers, payer, blockhash)
    IN  IF ~built.ok THEN NotBuilt(built, blockhash)
        ELSE LET r == SimulateTransaction(built.val, lamports)
             IN  Outcome(Ok([result |-> r.result]), r.bal, blockhash.val, TRUE,
                         built.val)

simulate_ix_with_default_compute_limit(instruction, signers, payer, blockhash) ==
    simulate_ixs_with_default_compute_limit(<<instruction>>, signers, payer, blockhash)

airdrop(to, n, blockhash) ==
    process_ix_with_default_compute_limit(Transfer(Payer, to, n), <<>>, None, blockhash)

\* The keypair Keypair::new() returns next.
NewKeypair == KeyPool[nkeys + 1]

get_funded_keypair_ignoring_airdrop(blockhash) ==
    [airdrop(NewKeypair, LAMPORTS_PER_SOL, blockhash) EXCEPT !.ret = Ok(NewKeypair)]
get_funded_keypair(blockhash) ==
    LET o == airdrop(NewKeypair, LAMPORTS_PER_SOL, blockhash)
    IN  IF o.ret.ok THEN [o EXCEPT !.ret = Ok(NewKeypair)] ELSE o

(***************************************************************************)
(* What the caller passes in.                                              *)
(***************************************************************************)
\* The keypairs the caller holds besides the session's payer.
HeldKeys == CallerKeys \cup {KeyPool[i] : i \in 1..nkeys}
KnownAddrs == (Addr \ PoolKeys) \cup HeldKeys

TransferIxs == {Transfer(f, t, n) : f \in HeldKeys, t \in Recipients, n \in Amounts}
Instructions == TransferIxs \cup {Failing(e) : e \in DomainErrors}
IxLists ==
    {<<>>} \cup {<<i>> : i \in Instructions}
           \cup {<<t, Failing(AnchorError(6000))>> : t \in TransferIxs}
SignerLists == {<<>>} \cup {<<k>> : k \in HeldKeys}
PayerChoices == {None} \cup HeldKeys

\* A few of each, for the specification that runs every operation together.
FewInstructions ==
    {Transfer(f, t, 1000000) : f \in HeldKeys, t \in Recipients}
        \cup {Failing(AnchorError(6000))}
FewIxLists == {<<>>} \cup {<<i>> : i \in FewInstructions}
FewSignerLists == {<<>>} \cup {<<k>> : k \in CallerKeys}
FewAddrs == CallerKeys

Op(name, instructions, signers, payer, pubkey, n) ==
    [name |-> name, instructions |-> instructions, signers |-> signers,
     payer |-> payer, pubkey |-> pubkey, n |-> n]

(***************************************************************************)
(* The session after start_from_program_test.                              *)
(***************************************************************************)
Init ==
    /\ lamports = [a \in Addr |->
                      IF a = Payer THEN MintLamports
                      ELSE IF a \in DOMAIN GenesisData THEN GenesisLamports ELSE 0]
    /\ data = [a \in Addr |-> IF a \in DOMAIN GenesisData THEN GenesisData[a] ELSE <<>>]
    /\ clock = Clock(0, 0, 0)
    /\ last_blockhash = 0
    /\ overflow_checks \in BOOLEAN
    /\ alive = TRUE
    /\ nkeys = 0
    /\ op = Op("start_from_program_test", <<>>, <<>>, None, None, 0)
    /\ ret = Ok("()")
    /\ tx = NoTx

(***************************************************************************)
(* One action for each facade call, over the inputs it is given.           *)
(***************************************************************************)
CanBuild == alive /\ last_blockhash < MaxBlockhash

Apply(o) ==
    /\ ret' = o.ret
    /\ lamports' = o.lamports
    /\ last_blockhash' = o.last_blockhash
    /\ alive' = o.alive
    /\ tx' = o.tx

ProcessIxs(ixlists, signerlists, payers) ==
    /\ CanBuild
    /\ \E instructions \in ixlists, signers \in signerlists, payer \in payers,
          blockhash \in NewBlockhashOutcomes :
          /\ Apply(process_ixs_with_default_compute_limit(instructions, signers,
                                                         payer, blockhash))
          /\ op' = Op("process_ixs_with_default_compute_limit", instructions, signers,
                      payer, None, 0)
    /\ UNCHANGED <<data, clock, overflow_checks, nkeys>>

ProcessIx(ixs, signerlists, payers) ==
    /\ CanBuild
    /\ \E instruction \in ixs, signers \in signerlists, payer \in payers,
          blockhash \in NewBlockhashOutcomes :
          /\ Apply(process_ix_with_default_compute_limit(instruction, signers, payer,
                                                        blockhash))
          /\ op' = Op("process_ixs_with_default_compute_limit", <<instruction>>,
                      signers, payer, None, 0)
    /\ UNCHANGED <<data, clock, overflow_checks, nkeys>>

SimulateIxs(ixlists, signerlists, payers) ==
    /\ CanBuild
    /\ \E instructions \in ixlists, signers \in signerlists, payer \in payers,
          blockhash \in NewBlockhashOutcomes :
          /\ Apply(simulate_ixs_with_default_compute_limit(instructions, signers,
                                                          payer, blockhash))
          /\ op' = Op("simulate_ixs_with_default_compute_limit", instructions, signers,
                      payer, None, 0)
    /\ UNCHANGED <<data, clock, overflow_checks, nkeys>>

SimulateIx(ixs, signerlists, payers) ==
    /\ CanBuild
    /\ \E instruction \in ixs, signers \in signerlists, payer \in payers,
          blockhash \in NewBlockhashOutcomes :
          /\ Apply(simulate_ix_with_default_compute_limit(instruction, signers, payer,
                                                         blockhash))
          /\ op' = Op("simulate_ixs_with_default_compute_limit", <<instruction>>,
                      signers, payer, None, 0)
    /\ UNCHANGED <<data, clock, overflow_checks, nkeys>>

Airdrop(pubkeys, amounts) ==
    /\ CanBuild
    /\ \E to \in pubkeys, n \in amounts, blockhash \in NewBlockhashOutcomes :
          /\ Apply(airdrop(to, n, blockhash))
          /\ op' = Op("airdrop", <<Transfer(Payer, to, n)>>, <<>>, None, to, n)
    /\ UNCHANGED <<data, clock, overflow_checks, nkeys>>

GetFundedKeypair ==
    /\ CanBuild
    /\ nkeys < Len(KeyPool)
    /\ \E blockhash \in NewBlockhashOutcomes :
          LET o == get_funded_keypair(blockhash)
          IN  /\ Apply(o)
              /\ nkeys' = IF o.ret.ok THEN nkeys + 1 ELSE nkeys
              /\ op' = Op("get_funded_keypair",
                          <<Transfer(Payer, NewKeypair, LAMPORTS_PER_SOL)>>, <<>>, None,
                          NewKeypair, LAMPORTS_PER_SOL)
    /\ UNCHANGED <<data, clock, overflow_checks>>

\* A read: its result is returned, and a panic in it ends the test process.
Read(name, pubkey, result) ==
    /\ alive
    /\ ret' = result
    /\ alive' = ~(~result.ok /\ result.panicked)
    /\ op' = Op(name, <<>>, <<>>, None, pubkey, 0)
    /\ tx' = NoTx
    /\ UNCHANGED <<lamports, data, clock, last_blockhash, overflow_checks, nkeys>>

GetAccount(pubkeys) ==
    \E pubkey \in pubkeys : Read("get_account", pubkey, get_account(pubkey))

GetAnchorAccountData(pubkeys) ==
    \E pubkey \in pubkeys :
        Read("get_anchor_account_data", pubkey, get_anchor_account_data(pubkey))

GetBorshAccountData(pubkeys) ==
    \E pubkey \in pubkeys :
        Read("get_borsh_account_data", pubkey, get_borsh_account_data(pubkey))

GetPackedAccountData(pubkeys) ==
    \E pubkey \in pubkeys :
        Read("get_packed_account_data", pubkey, get_packed_account_data(pubkey))

GetBalance(pubkeys) ==
    \E pubkey \in pubkeys : Read("get_balance", pubkey, get_balance(pubkey))

GetClock == Read("get_clock", None, get_clock)

AdvanceClockBy(seconds) ==
    /\ alive
    /\ \E seconds_to_advance \in seconds :
          /\ IF overflow_checks /\ AddOverflows(clock, seconds_to_advance)
             THEN /\ ret' = Panic("attempt to add with overflow")
                  /\ alive' = FALSE
                  /\ clock' = clock
             ELSE /\ ret' = Ok("()")
                  /\ alive' = TRUE
                  /\ clock' = ClockAdvancedBy(clock, seconds_to_advance)
          /\ op' = Op("advance_clock_by", <<>>, <<>>, None, None, seconds_to_advance)
    /\ tx' = NoTx
    /\ UNCHANGED <<lamports, data, last_blockhash, overflow_checks, nkeys>>

AdvanceClockTo(seconds) ==
    /\ alive
    /\ \E seconds_to_advance \in seconds :
          /\ ret' = Ok("()")
          /\ clock' = ClockAdvancedTo(clock, seconds_to_advance)
          /\ op' = Op("advance_clock_to", <<>>, <<>>, None, None, seconds_to_advance)
    /\ tx' = NoTx
    /\ UNCHANGED <<lamports, data, last_blockhash, overflow_checks, alive, nkeys>>

\* ProgramTestContext::warp_to_slot, which warp_to_epoch calls with the epoch's
\* first slot.
Warp(name, n, warp_slot) ==
    /\ alive
    /\ ret' = WarpResult(clock, warp_slot)
    /\ IF WarpResult(clock, warp_slot).ok
       THEN clock' \in ClocksAfterWarp(clock, warp_slot)
       ELSE clock' = clock
    /\ op' = Op(name, <<>>, <<>>, None, None, n)
    /\ tx' = NoTx
    /\ UNCHANGED <<lamports, data, last_blockhash, overflow_checks, alive, nkeys>>

WarpToEpoch ==
    \E warp_epoch \in 0..(MaxSlot \div SlotsPerEpoch) :
        Warp("warp_to_epoch", warp_epoch, FirstSlotInEpoch(warp_epoch))

WarpToSlot == \E warp_slot \in 0..MaxSlot : Warp("warp_to_slot", warp_slot, warp_slot)

(***************************************************************************)
(* Specifications.  Spec runs every operation, each over a few inputs;     *)
(* SpecLedger runs the transaction operations over all their inputs,       *)
(* SpecAccounts the account reads, SpecClock the clock operations.         *)
(***************************************************************************)
Next ==
    \/ ProcessIxs(FewIxLists, FewSignerLists, {None})
    \/ ProcessIx(FewInstructions, FewSignerLists, {None})
    \/ SimulateIxs(FewIxLists, FewSignerLists, {None})
    \/ SimulateIx(FewInstructions, FewSignerLists, {None})
    \/ Airdrop(CallerKeys, {LAMPORTS_PER_SOL})
    \/ GetFundedKeypair
    \/ GetAccount(FewAddrs)
    \/ GetAnchorAccountData(FewAddrs)
    \/ GetBorshAccountData(FewAddrs)
    \/ GetPackedAccountData(FewAddrs)
    \/ GetBalance(FewAddrs)
    \/ GetClock
    \/ AdvanceClockBy({-1, 1})
    \/ AdvanceClockTo({0})
    \/ WarpToEpoch
    \/ WarpToSlot

Spec == Init /\ [][Next]_vars

\* A session built with overflow checks, as `cargo test` builds it: the build
\* matters to the clock operations only.
InitChecked == Init /\ overflow_checks

NextLedger ==
    \/ ProcessIxs(IxLists, SignerLists, PayerChoices)
    \/ ProcessIx(FewInstructions, SignerLists, PayerChoices)
    \/ SimulateIxs(IxLists, SignerLists, PayerChoices)
    \/ SimulateIx(FewInstructions, SignerLists, PayerChoices)
    \/ Airdrop(KnownAddrs \ {Payer}, Amounts)
    \/ GetFundedKeypair
    \/ GetBalance(KnownAddrs)

SpecLedger == InitChecked /\ [][NextLedger]_vars

NextAccounts ==
    \/ ProcessIx(FewInstructions, FewSignerLists, {None})
    \/ Airdrop(KnownAddrs \ {Payer}, Amounts)
    \/ GetFundedKeypair
    \/ GetAccount(KnownAddrs)
    \/ GetAnchorAccountData(KnownAddrs)
    \/ GetBorshAccountData(KnownAddrs)
    \/ GetPackedAccountData(KnownAddrs)
    \/ GetBalance(KnownAddrs)

SpecAccounts == InitChecked /\ [][NextAccounts]_vars

NextClock ==
    \/ GetClock
    \/ AdvanceClockBy(Timestamps)
    \/ AdvanceClockTo(Timestamps)
    \/ WarpToEpoch
    \/ WarpToSlot

SpecClock == Init /\ [][NextClock]_vars

(***************************************************************************)
(* Properties.                                                             *)
(***************************************************************************)
Submit == "process_ixs_with_default_compute_limit"
Simulate == "simulate_ixs_with_default_compute_limit"

\* C1: the transaction build_and_sign_tx produced for the last call starts with the
\* compute budget instruction that sets the unit limit to 2,000,000, and the rest
\* of its instructions are the caller's, in the same order and number.
C1_ComputeBudgetFirst ==
    tx # NoTx =>
        /\ Len(tx.instructions) = Len(op.instructions) + 1
        /\ tx.instructions[1].kind = "SetComputeUnitLimit"
        /\ tx.instructions[1].units = ComputeUnitLimit
        /\ \A i \in 1..Len(op.instructions) : tx.instructions[i + 1] = op.instructions[i]

\* C1 witness: a transaction built from two caller instructions, with a signer and
\* a payer override.
C1_Witness ==
    /\ tx # NoTx
    /\ Len(op.instructions) = 2
    /\ op.signers # <<>>
    /\ op.payer # None

\* C2: a simulate call leaves every balance, every account's data and the clock
\* (timestamps, slot and epoch) as they were, whatever the simulation's result.
C2_SimulateLeavesLedger ==
    [][op'.name = Simulate =>
          /\ \A a \in Addr : get_balance(a)' = get_balance(a)
          /\ \A a \in Addr : get_account(a)' = get_account(a)
          /\ get_clock' = get_clock
          /\ lamports' = lamports /\ data' = data /\ clock' = clock]_vars

\* C2 witness: a simulated transfer that succeeded, so committing it would have
\* moved lamports.
C2_Witness ==
    /\ op.name = Simulate
    /\ ret.ok
    /\ ret.val.result.ok
    /\ Len(op.instructions) = 1
    /\ op.instructions[1].kind = "Transfer"
    /\ op.instructions[1].lamports > 0

\* A submit of one system transfer, signed by its source, with no payer override,
\* from a funded source other than the default payer to an unfunded address,
\* that returned a signature.
TransferScenarioStep ==
    /\ op'.name = Submit
    /\ Len(op'.instructions) = 1
    /\ op'.instructions[1].kind = "Transfer"
    /\ op'.signers = <<op'.instructions[1].from>>
    /\ op'.payer = None
    /\ op'.instructions[1].from # Payer
    /\ lamports[op'.instructions[1].from] > 0
    /\ lamports[op'.instructions[1].to] = 0
    /\ ret'.ok

\* C3 as stated: after the transfer B holds n, and A holds what it held less n and
\* less the transaction's fee.
C3_SourcePaysFee ==
    [][TransferScenarioStep =>
          \A from \in Addr, to \in Addr, n \in Amounts :
              op'.instructions[1] = Transfer(from, to, n) =>
                  /\ get_balance(to)' = Ok(n)
                  /\ get_balance(from)' = Ok(lamports[from] - n - Fee(tx'))]_vars

\* C3 as amended: after the transfer B holds n and A holds what it held less n;
\* the fee, for the two signatures, is taken from the session's default payer.
C3_DefaultPayerPaysFee ==
    [][TransferScenarioStep =>
          \A from \in Addr, to \in Addr, n \in Amounts :
              op'.instructions[1] = Transfer(from, to, n) =>
                  /\ get_balance(to)' = Ok(n)
                  /\ get_balance(from)' = Ok(lamports[from] - n)
                  /\ get_balance(Payer)' =
                         Ok(lamports[Payer] - 2 * LamportsPerSignature)]_vars

\* C3 witness: such a transfer was submitted and succeeded, out of a keypair that
\* get_funded_keypair had funded.
C3_Witness ==
    /\ op.name = Submit
    /\ Len(op.instructions) = 1
    /\ op.instructions[1].kind = "Transfer"
    /\ op.instructions[1].from \in PoolKeys
    /\ op.signers = <<op.instructions[1].from>>
    /\ op.payer = None
    /\ ret.ok
    /\ lamports[op.instructions[1].to] = op.instructions[1].lamports
    /\ lamports[op.instructions[1].from] = LAMPORTS_PER_SOL - op.instructions[1].lamports

\* C4 as stated: when a submit of one instruction fails in that instruction with
\* the domain error e, the transaction error returned is into_transaction_error(e),
\* an instruction error at index 0.
C4_ErrorAtIndexZero ==
    (/\ op.name = Submit
     /\ Len(op.instructions) = 1
     /\ op.instructions[1].kind = "Failing"
     /\ ~ret.ok
     /\ ~ret.panicked
     /\ ret.err.variant = "TransactionError"
     /\ ret.err.te.kind = "InstructionError")
        => ret.err.te = into_transaction_error(op.instructions[1].error)

\* C5 as stated: no step of any operation lowers the slot, the epoch or either
\* timestamp of the clock.
C5_ClockNeverDecreases ==
    [][/\ clock'.slot >= clock.slot
       /\ clock'.epoch >= clock.epoch
       /\ clock'.epoch_start_timestamp >= clock.epoch_start_timestamp
       /\ clock'.unix_timestamp >= clock.unix_timestamp]_vars

ClockSetters == {"advance_clock_by", "advance_clock_to"}
Warps == {"warp_to_epoch", "warp_to_slot"}

\* C5 as amended: no step lowers the slot or the epoch, and every operation but
\* the warps, advance_clock_by and advance_clock_to leaves both timestamps as they
\* were (those two may move them back).
C5_PositionNeverDecreases ==
    [][/\ clock'.slot >= clock.slot
       /\ clock'.epoch >= clock.epoch
       /\ op'.name \notin ClockSetters \cup Warps =>
              /\ clock'.epoch_start_timestamp = clock.epoch_start_timestamp
              /\ clock'.unix_timestamp = clock.unix_timestamp]_vars

\* C5 witness: after a warp, advance_clock_by returned from a negative delta, with
\* the slot and the epoch still ahead.
C5_Witness ==
    /\ op.name = "advance_clock_by"
    /\ op.n < 0
    /\ ret.ok
    /\ clock.slot > 0
    /\ clock.epoch > 0

TypedReads ==
    {"get_anchor_account_data", "get_borsh_account_data", "get_packed_account_data"}
\* The bytes T needs under each encoding.
LayoutLen(name) ==
    IF name = "get_anchor_account_data" THEN DiscriminatorLen + TypedLen ELSE TypedLen

\* C6 as stated: a typed read of an absent address, or of an account whose data is
\* shorter than T's layout under the encoding, returns an error value: account not
\* found for the absent address, never a panic and never a decoded T.
C6_TypedReadReturnsError ==
    (/\ op.name \in TypedReads
     /\ Len(data[op.pubkey]) < LayoutLen(op.name))
        => /\ ~ret.ok
           /\ ~ret.panicked
           /\ lamports[op.pubkey] = 0 => ret = Err(ClientError("Account not found"))

\* C7 as stated: get_account of an address that holds nothing fails with an error
\* that is not a ClientError, and of an address that exists returns its snapshot;
\* the session is unchanged.
C7_AccountNotFoundDistinct ==
    op.name = "get_account" =>
        IF lamports[op.pubkey] = 0
        THEN ~ret.ok /\ ~ret.panicked /\ ret.err.variant # "ClientError"
        ELSE ret = Ok([lamports |-> lamports[op.pubkey], data |-> data[op.pubkey]])

\* C8: when get_funded_keypair succeeds, the keypair it returns was unused, its
\* balance is 1,000,000,000 lamports, and the default payer holds that much less
\* (and the fee for its one signature less); when the airdrop fails,
\* get_funded_keypair returns the airdrop's error and the caller holds no new
\* keypair.
C8_FundedKeypair ==
    [][op'.name = "get_funded_keypair" =>
          \A k \in PoolKeys :
              k = NewKeypair =>
                  IF ret'.ok
                  THEN /\ ret'.val = k
                       /\ lamports[k] = 0
                       /\ get_balance(k)' = Ok(LAMPORTS_PER_SOL)
                       /\ get_balance(Payer)' =
                              Ok(lamports[Payer] - LAMPORTS_PER_SOL - LamportsPerSignature)
                       /\ HeldKeys' = HeldKeys \cup {k}
                  ELSE /\ ret'.err.variant \in {"TransactionError", "Io"}
                       /\ get_balance(k)' = Ok(0)
                       /\ HeldKeys' = HeldKeys]_vars

\* C8 witness: get_funded_keypair returned a keypair.
C8_Witness ==
    /\ op.name = "get_funded_keypair"
    /\ ret.ok
    /\ ret.val \in HeldKeys
    /\ lamports[ret.val] = LAMPORTS_PER_SOL

\* get_funded_keypair failed in its transfer, the payer being short of lamports.
C8_FailureReached ==
    /\ op.name = "get_funded_keypair"
    /\ ~ret.ok
    /\ ret.err.variant = "TransactionError"

\* C9 as stated: advance_clock_by(d) leaves a clock whose two timestamps are each
\* d more than before, for every d, the other fields unchanged.
C9_ExactlyDelta ==
    [][op'.name = "advance_clock_by" =>
          /\ clock'.epoch_start_timestamp = clock.epoch_start_timestamp + op'.n
          /\ clock'.unix_timestamp = clock.unix_timestamp + op'.n
          /\ clock'.slot = clock.slot
          /\ clock'.epoch = clock.epoch
          /\ clock'.leader_schedule_epoch = clock.leader_schedule_epoch]_vars

\* x is y + d in 64-bit two's complement.
WrappedSum(x, y, d) == InI64(x) /\ (x - y - d) % (2 * (I64Max + 1)) = 0

\* What advance_clock_by does on every input: when both sums fit an i64 it
\* returns and get_clock then shows both timestamps d more than before, the
\* other fields unchanged; when one does not, a build with overflow checks
\* panics and leaves the clock as it was, and a build without them wraps each sum.
C9_DeltaWithinRange ==
    [][op'.name = "advance_clock_by" =>
          /\ clock'.slot = clock.slot
          /\ clock'.epoch = clock.epoch
          /\ clock'.leader_schedule_epoch = clock.leader_schedule_epoch
          /\ IF /\ InI64(clock.epoch_start_timestamp + op'.n)
                /\ InI64(clock.unix_timestamp + op'.n)
             THEN /\ ret'.ok
                  /\ get_clock'.val.epoch_start_timestamp
                         = clock.epoch_start_timestamp + op'.n
                  /\ get_clock'.val.unix_timestamp = clock.unix_timestamp + op'.n
             ELSE IF overflow_checks
             THEN ~ret'.ok /\ ret'.panicked /\ clock' = clock
             ELSE /\ ret'.ok
                  /\ WrappedSum(clock'.epoch_start_timestamp,
                                clock.epoch_start_timestamp, op'.n)
                  /\ WrappedSum(clock'.unix_timestamp, clock.unix_timestamp, op'.n)]_vars

\* advance_clock_by returned from a negative delta on a clock whose two
\* timestamps differ.
C9_InRangeReached ==
    /\ op.name = "advance_clock_by"
    /\ op.n < 0
    /\ ret.ok
    /\ clock.unix_timestamp # clock.epoch_start_timestamp
    /\ clock.slot > 0

\* C9 witness: advance_clock_by overflowed, a panic with overflow checks, a wrap
\* without.
C9_OverflowReached ==
    /\ op.name = "advance_clock_by"
    /\ op.n > 0
    /\ \/ ~ret.ok
       \/ clock.unix_timestamp < 0 /\ clock.unix_timestamp - op.n < I64Min

\* C10: advance_clock_to(T) returns and get_clock then shows both timestamps equal
\* to T, whatever they were, the other fields unchanged; a second
\* advance_clock_to(T) right after it leaves the clock as the first did.
C10_OverwritesWithT ==
    [][op'.name = "advance_clock_to" =>
          /\ ret'.ok
          /\ get_clock'.val.epoch_start_timestamp = op'.n
          /\ get_clock'.val.unix_timestamp = op'.n
          /\ clock'.slot = clock.slot
          /\ clock'.epoch = clock.epoch
          /\ clock'.leader_schedule_epoch = clock.leader_schedule_epoch
          /\ (op.name = "advance_clock_to" /\ op.n = op'.n) => clock' = clock]_vars

\* C10 witness: advance_clock_to set a nonzero T on a warped clock.
C10_Witness ==
    /\ op.name = "advance_clock_to"
    /\ op.n # 0
    /\ ret.ok
    /\ clock.unix_timestamp = op.n
    /\ clock.epoch_start_timestamp = op.n
    /\ clock.slot > 0

====
